---- MODULE Spec2Model ----
(***************************************************************************)
(* Model of the benchmark-result plotting scripts:                         *)
(*   experiments/storage_virtualization/plot-storage-virtualization.py     *)
(*   experiments/wordcount/plot-multinode-results.py                       *)
(*   experiments/wordcount/plot-blocksize-results.py                       *)
(* Each script is a single-threaded batch job: main() checks its input,    *)
(* loads a CSV table, and calls plotting functions that write figures.     *)
(* A run is modelled as a sequence of steps of main(); every function the  *)
(* step calls is part of the step.  An uncaught Python exception ends the  *)
(* run with exit status 1 and is recorded in exc.                          *)
(*                                                                         *)
(* Floating-point quotients are kept as exact fractions [num, den].        *)
(***************************************************************************)
EXTENDS Integers, Sequences, FiniteSets, TLC

VARIABLES
    script,      \* which script runs: "storage" | "multinode" | "blocksize"
    path_state,  \* input: "no_arg" | "missing_dir" | "missing" | "ok"
    columns,     \* input: the header row of the CSV file (set of column names)
    rows,        \* input: the data rows of the CSV file, in file order
    pc,          \* position in main()
    df,          \* the loaded table (rows of the pandas DataFrame)
    exp_type,    \* result of detect_experiment_type ("" before detection)
    results,     \* multinode: dict node_count -> [(block_size_human, runtime)], in insertion order
    panels,      \* what the plotting functions have drawn or derived so far
    plotted,     \* the plotting functions entered, in call order
    artifacts,   \* the figure files written by savefig, in write order
    stdout,      \* console lines (tags), in print order
    exc,         \* "none" or the uncaught exception / SystemExit message kind
    exit_code    \* -1 while running, then the process exit status

vars == <<script, path_state, columns, rows, pc, df, exp_type, results,
          panels, plotted, artifacts, stdout, exc, exit_code>>

\* ------------------------------------------------------------------ bounds

\* Largest number of data rows of an input table.
MaxRows == 2

\* Largest number of data rows of a scaling table without a heap_delta_mb
\* column.
MaxScalingRows == 3

\* Largest number of data rows of a block-size table of equal or failed
\* runtimes.
MaxTieRows == 3

\* ------------------------------------------------------------ common parts

MB == 1048576
GiB == 1073741824

\* Line 180: the HDFS default estimate of the bytes one block costs.
DefaultBytesPerBlock == 150

NoPanels == [bytes_per_block |-> <<>>, has_bytes_per_block |-> FALSE,
             has_trend |-> FALSE, trend |-> <<>>,
             has_projections |-> FALSE, bytes_per_block_avg |-> <<>>,
             projections |-> <<>>,
             optimal_idx |-> 0,
             drawn |-> <<>>]

\* sys.exit(1) after printing a diagnostic line.
SysExit1(msg) ==
    /\ stdout' = Append(stdout, msg)
    /\ exit_code' = 1
    /\ pc' = "exit"

\* An uncaught exception: traceback, exit status 1.
Raise(e) ==
    /\ exc' = e
    /\ exit_code' = 1
    /\ pc' = "exit"

\* ------------------------------------- plot-storage-virtualization.py

\* The marker columns detect_experiment_type looks at, and the marker columns
\* of the other scripts' tables.
MarkerColumns == {"num_dirs", "target_blocks", "block_size_exp", "heap_used_mb",
                  "timestamp", "block_size_bytes", "block_size_human", "node_count"}

detect_rule2_before_rule1(cols) ==
    IF "target_blocks" \in cols \/ "block_size_exp" \in cols THEN "block_scaling"
    ELSE IF "num_dirs" \in cols THEN "storage_dirs"
    ELSE IF "heap_used_mb" \in cols /\ "timestamp" \in cols THEN "memory_monitor"
    ELSE "unknown"

detect_rule3_before_rule2(cols) ==
    IF "num_dirs" \in cols THEN "storage_dirs"
    ELSE IF "heap_used_mb" \in cols /\ "timestamp" \in cols THEN "memory_monitor"
    ELSE IF "target_blocks" \in cols \/ "block_size_exp" \in cols THEN "block_scaling"
    ELSE "unknown"

detect_multinode_rule(cols) ==
    IF "num_dirs" \in cols THEN "storage_dirs"
    ELSE IF "target_blocks" \in cols \/ "block_size_exp" \in cols THEN "block_scaling"
    ELSE IF "heap_used_mb" \in cols /\ "timestamp" \in cols THEN "memory_monitor"
    ELSE IF "node_count" \in cols /\ "block_size_human" \in cols THEN "multi_node"
    ELSE "unknown"

detect_experiment_type(cols) ==
    IF "num_dirs" \in cols THEN "storage_dirs"
    ELSE IF "target_blocks" \in cols \/ "block_size_exp" \in cols THEN "block_scaling"
    ELSE IF "heap_used_mb" \in cols /\ "timestamp" \in cols THEN "memory_monitor"
    ELSE "unknown"

\* --- pandas Series arithmetic used by plot_block_scaling.  A Series is a
\* --- sequence of cells; a cell is a number or NaN.

Num(n) == [nan |-> FALSE, v |-> n]
NaN == [nan |-> TRUE, v |-> 0]

\* df[name]
Column(d, name) == [i \in 1..Len(d) |-> Num(d[i][name])]

\* Series.diff(): the first cell has no predecessor and is NaN.
diff(s) ==
    [i \in 1..Len(s) |->
        IF i = 1 \/ s[i].nan \/ s[i - 1].nan THEN NaN
        ELSE Num(s[i].v - s[i - 1].v)]

\* Series.fillna(other): NaN cells take the cell of other at the same index.
fillna(s, other) == [i \in 1..Len(s) |-> IF s[i].nan THEN other[i] ELSE s[i]]

\* Series.replace(a, b)
replace(s, a, b) ==
    [i \in 1..Len(s) |-> IF ~s[i].nan /\ s[i].v = a THEN Num(b) ELSE s[i]]

\* Series * k
times(s, k) == [i \in 1..Len(s) |-> IF s[i].nan THEN NaN ELSE Num(s[i].v * k)]

\* Series / Series, elementwise; the quotient is kept as an exact fraction
\* (a zero denominator is pandas' inf/nan, not an exception).
divide(s, t) == [i \in 1..Len(s) |-> [num |-> s[i].v, den |-> t[i].v]]

bytes_per_block_no_replace(d) ==
    LET blocks_delta == fillna(diff(Column(d, "actual_blocks")), Column(d, "actual_blocks"))
        heap_delta == fillna(diff(Column(d, "heap_delta_mb")), Column(d, "heap_delta_mb"))
    IN divide(times(heap_delta, MB), blocks_delta)

\* Lines 142-144: the "Memory Cost per Block" series.
bytes_per_block(d) ==
    LET blocks_delta == fillna(diff(Column(d, "actual_blocks")), Column(d, "actual_blocks"))
        heap_delta == fillna(diff(Column(d, "heap_delta_mb")), Column(d, "heap_delta_mb"))
    IN divide(times(heap_delta, MB), replace(blocks_delta, 0, 1))

\* Series.idxmax() over the rows of a scaling table: the first row holding
\* the maximum.
idxmax(d, name) ==
    CHOOSE i \in 1..Len(d) :
        /\ \A j \in 1..Len(d) : d[i][name] >= d[j][name]
        /\ \A j \in 1..(i - 1) : d[j][name] < d[i][name]

\* The sum of a sequence of numbers.
RECURSIVE Sum(_)
Sum(s) == IF s = <<>> THEN 0 ELSE s[1] + Sum(Tail(s))

\* np.polyfit(x, y, 1) with the slope and the intercept read in the wrong
\* order.
polyfit_swapped(d, x, y) ==
    LET n == Len(d)
        Sx == Sum([i \in 1..n |-> d[i][x]])
        Sy == Sum([i \in 1..n |-> d[i][y]])
        Sxy == Sum([i \in 1..n |-> d[i][x] * d[i][y]])
        Sxx == Sum([i \in 1..n |-> d[i][x] * d[i][x]])
        den == n * Sxx - Sx * Sx
    IN [slope |-> [num |-> Sy * Sxx - Sx * Sxy, den |-> den],
        intercept |-> [num |-> n * Sxy - Sx * Sy, den |-> den]]

\* Line 132: np.polyfit(x, y, 1), the least-squares line through the points,
\* as exact fractions over the common denominator n*Sxx - Sx^2. The
\* denominator is 0 when every x is the same (numpy warns of a poorly
\* conditioned fit and returns one of the least-squares lines; the model
\* keeps the zero denominator).
polyfit(d, x, y) ==
    LET n == Len(d)
        Sx == Sum([i \in 1..n |-> d[i][x]])
        Sy == Sum([i \in 1..n |-> d[i][y]])
        Sxy == Sum([i \in 1..n |-> d[i][x] * d[i][y]])
        Sxx == Sum([i \in 1..n |-> d[i][x] * d[i][x]])
        den == n * Sxx - Sx * Sx
    IN [slope |-> [num |-> n * Sxy - Sx * Sy, den |-> den],
        intercept |-> [num |-> Sy * Sxx - Sx * Sxy, den |-> den]]

\* int(p / q) for q # 0: the quotient truncated toward zero.
TruncDiv(p, q) ==
    LET ap == IF p < 0 THEN -p ELSE p
        aq == IF q < 0 THEN -q ELSE q
    IN IF (p < 0) = (q < 0) THEN ap \div aq ELSE -(ap \div aq)

\* Lines 175-180: the average bytes per block between the first and the last
\* row, as a fraction; the default when the block count did not grow.
bytes_per_block_avg(d) ==
    LET total_heap_delta == d[Len(d)]["heap_mb"] - d[1]["heap_mb"]
        total_block_delta == d[Len(d)]["actual_blocks"] - d[1]["actual_blocks"]
    IN IF total_block_delta > 0
       THEN [num |-> total_heap_delta * MB, den |-> total_block_delta]
       ELSE [num |-> DefaultBytesPerBlock, den |-> 1]

\* Line 184.
HeapBudgets == <<4, 8, 16, 32, 64>>

\* Line 185: int((heap_gb * 1024 * 1024 * 1024) / bytes_per_block_avg) for a
\* non-zero average. The quotient heap_gb * GiB * den / num is computed
\* without forming heap_gb * GiB: a measured average is a multiple of MB, and
\* for the default GiB is split into quotient and remainder.
max_blocks(heap_gb, avg) ==
    IF avg.num % MB = 0
    THEN TruncDiv(heap_gb * (GiB \div MB) * avg.den, avg.num \div MB)
    ELSE heap_gb * (GiB \div avg.num) + (heap_gb * (GiB % avg.num)) \div avg.num

\* The columns a plotting function indexes unconditionally; a missing one is
\* a KeyError.
RequiredStorageDirs == {"num_dirs", "write_throughput_mbps", "read_throughput_mbps",
                        "block_report_ms", "namenode_heap_mb"}
RequiredBlockScaling == {"actual_blocks", "heap_mb"}

\* ---- main(), plot-storage-virtualization.py

\* Lines 291-298: usage check and file-existence check.
storage_main_check ==
    /\ script = "storage" /\ pc = "start"
    /\ IF path_state = "no_arg" THEN SysExit1("usage")
       ELSE IF path_state = "missing" THEN SysExit1("file_not_found")
       ELSE /\ pc' = "read"
            /\ UNCHANGED <<stdout, exit_code>>
    /\ UNCHANGED <<script, path_state, columns, rows, df, exp_type, results,
                   panels, plotted, artifacts, exc>>

\* Lines 303-308: read the CSV, detect the experiment type.
storage_main_read_detect ==
    /\ script = "storage" /\ pc = "read"
    /\ df' = rows
    /\ exp_type' = detect_experiment_type(columns)
    /\ stdout' = stdout \o <<"loaded", "detected">>
    /\ pc' = "dispatch"
    /\ UNCHANGED <<script, path_state, columns, rows, results, panels, plotted,
                   artifacts, exc, exit_code>>

\* Lines 41-114.
plot_storage_dirs ==
    /\ script = "storage" /\ pc = "dispatch" /\ exp_type = "storage_dirs"
    /\ plotted' = Append(plotted, "plot_storage_dirs")
    /\ IF ~(RequiredStorageDirs \subseteq columns)
       THEN Raise("KeyError") /\ UNCHANGED <<panels, artifacts, stdout>>
       ELSE IF Len(df) = 0      \* idxmax of an empty Series
       THEN /\ Raise("ValueError")
            /\ panels' = [panels EXCEPT !.drawn = <<"throughput", "block_report", "heap">>]
            /\ UNCHANGED <<artifacts, stdout>>
       ELSE /\ panels' = [panels EXCEPT
                              !.optimal_idx = idxmax(df, "write_throughput_mbps"),
                              !.drawn = <<"throughput", "block_report", "heap", "summary">>]
            /\ artifacts' = artifacts \o
                              <<"storage_dirs_results.png", "storage_dirs_results.pdf">>
            /\ stdout' = Append(stdout, "plot_saved")
            /\ pc' = "show"
            /\ UNCHANGED <<exc, exit_code>>
    /\ UNCHANGED <<script, path_state, columns, rows, df, exp_type, results>>

\* Lines 117-214.
plot_block_scaling ==
    /\ script = "storage" /\ pc = "dispatch" /\ exp_type = "block_scaling"
    /\ plotted' = Append(plotted, "plot_block_scaling")
    /\ IF ~(RequiredBlockScaling \subseteq columns)
       THEN Raise("KeyError") /\ UNCHANGED <<panels, artifacts, stdout>>
       ELSE
       LET \* lines 131-137
           p1 == IF Len(df) > 2
                 THEN [panels EXCEPT !.has_trend = TRUE,
                                     !.trend = polyfit(df, "actual_blocks", "heap_mb"),
                                     !.drawn = <<"heap_vs_blocks">>]
                 ELSE [panels EXCEPT !.drawn = <<"heap_vs_blocks">>]
           \* lines 141-150
           p2 == IF "heap_delta_mb" \in columns /\ df[1]["actual_blocks"] > 0
                 THEN [p1 EXCEPT !.bytes_per_block = bytes_per_block(df),
                                 !.has_bytes_per_block = TRUE,
                                 !.drawn = <<"heap_vs_blocks", "memory_per_block", "latency">>]
                 ELSE [p1 EXCEPT !.drawn = <<"heap_vs_blocks", "latency">>]
           avg == bytes_per_block_avg(df)
           \* lines 172-186
           p3 == IF Len(df) > 1
                 THEN [p2 EXCEPT !.has_projections = TRUE,
                                 !.bytes_per_block_avg = avg,
                                 !.projections = [k \in 1..Len(HeapBudgets) |->
                                                     max_blocks(HeapBudgets[k], avg)],
                                 !.drawn = Append(p2.drawn, "projections")]
                 ELSE [p2 EXCEPT !.drawn = Append(p2.drawn, "projections")]
       IN
       IF "heap_delta_mb" \in columns /\ Len(df) = 0   \* .iloc[0] of an empty Series
       THEN /\ Raise("IndexError")
            /\ panels' = p1
            /\ UNCHANGED <<artifacts, stdout>>
       ELSE IF Len(df) > 1 /\ avg.num = 0    \* budget / 0.0 is inf, int(inf)
       THEN /\ Raise("OverflowError")
            /\ panels' = [p2 EXCEPT !.bytes_per_block_avg = avg]
            /\ UNCHANGED <<artifacts, stdout>>
       ELSE /\ panels' = p3
            /\ artifacts' = artifacts \o
                              <<"block_scaling_results.png", "block_scaling_results.pdf">>
            /\ stdout' = Append(stdout, "plot_saved")
            /\ pc' = "show"
            /\ UNCHANGED <<exc, exit_code>>
    /\ UNCHANGED <<script, path_state, columns, rows, df, exp_type, results>>

\* Lines 217-287.
plot_memory_monitor ==
    /\ script = "storage" /\ pc = "dispatch" /\ exp_type = "memory_monitor"
    /\ plotted' = Append(plotted, "plot_memory_monitor")
    /\ IF "heap_pct" \notin columns        \* line 237, after the heap panel
       THEN /\ Raise("KeyError")
            /\ panels' = [panels EXCEPT !.drawn = <<"heap">>]
            /\ UNCHANGED <<artifacts, stdout>>
       ELSE IF "block_count" \notin columns   \* lines 274-276 of the summary text
       THEN /\ Raise("KeyError")
            /\ panels' = [panels EXCEPT !.drawn = <<"heap", "heap_pct">>]
            /\ UNCHANGED <<artifacts, stdout>>
       ELSE IF Len(df) = 0                 \* .iloc[0] of an empty Series, line 274
       THEN /\ Raise("IndexError")
            /\ panels' = [panels EXCEPT !.drawn = <<"heap", "heap_pct", "block_count">>]
            /\ UNCHANGED <<artifacts, stdout>>
       ELSE /\ panels' = [panels EXCEPT !.drawn =
                              <<"heap", "heap_pct", "block_count", "summary">>]
            /\ artifacts' = Append(artifacts, "memory_monitor_results.png")
            /\ stdout' = Append(stdout, "plot_saved")
            /\ pc' = "show"
            /\ UNCHANGED <<exc, exit_code>>
    /\ UNCHANGED <<script, path_state, columns, rows, df, exp_type, results>>

\* Lines 316-318.
storage_main_unknown ==
    /\ script = "storage" /\ pc = "dispatch" /\ exp_type = "unknown"
    /\ SysExit1("unknown_experiment_type")
    /\ UNCHANGED <<script, path_state, columns, rows, df, exp_type, results,
                   panels, plotted, artifacts, exc>>

\* Line 320: plt.show(), then main returns.
storage_main_show ==
    /\ script = "storage" /\ pc = "show"
    /\ exit_code' = 0
    /\ pc' = "exit"
    /\ UNCHANGED <<script, path_state, columns, rows, df, exp_type, results,
                   panels, plotted, artifacts, stdout, exc>>

\* ---- input tables of plot-storage-virtualization.py

\* Non-marker columns the plotting functions read.
StorageDirsPayload == {"write_throughput_mbps", "read_throughput_mbps",
                       "block_report_ms", "namenode_heap_mb"}
BlockScalingPayload == {"actual_blocks", "heap_mb"}
PayloadSets == {StorageDirsPayload,
                BlockScalingPayload,
                BlockScalingPayload \cup {"heap_delta_mb"},
                {"heap_pct"},
                {"block_count"},
                {"heap_pct", "block_count"}}
KindMarkers == {{"num_dirs"}, {"target_blocks"}, {"heap_used_mb", "timestamp"}}

StorageColumnSets ==
    (SUBSET MarkerColumns) \cup {m \cup p : m \in KindMarkers, p \in PayloadSets}

\* The columns whose cell values the model keeps (the cells of the other
\* columns are only drawn).
ValueColumns == {"actual_blocks", "heap_delta_mb", "heap_mb", "write_throughput_mbps"}

\* Two families of tables: with a heap_delta_mb column the block counts and
\* deltas vary over one heap size, without it the block counts and heap sizes
\* vary.
CellValues(col, cols) ==
    CASE col = "actual_blocks" ->
            IF "heap_delta_mb" \in cols THEN {0, 5, 10} ELSE {1, 2, 3}
      [] col = "heap_delta_mb" -> {50, 80, 100, 200}
      [] col = "heap_mb" ->
            IF "heap_delta_mb" \in cols THEN {100} ELSE {10, 20, 30}
      [] col = "write_throughput_mbps" -> {40, 90}

RowsOver(cols) ==
    {r \in [cols \cap ValueColumns -> {0, 1, 2, 3, 5, 10, 20, 30, 40, 50, 80, 90, 100, 200}] :
        \A c \in DOMAIN r : r[c] \in CellValues(c, cols)}

TablesOver(cols) ==
    UNION {[1..n -> RowsOver(cols)] :
              n \in 0..(IF "heap_delta_mb" \in cols THEN MaxRows ELSE MaxScalingRows)}

InitRun ==
    /\ pc = "start"
    /\ df = <<>>
    /\ exp_type = ""
    /\ results = <<>>
    /\ panels = NoPanels
    /\ plotted = <<>>
    /\ artifacts = <<>>
    /\ stdout = <<>>
    /\ exc = "none"
    /\ exit_code = -1

InitStorage ==
    /\ script = "storage"
    /\ path_state \in {"no_arg", "missing", "ok"}
    /\ IF path_state = "ok"
       THEN /\ columns \in StorageColumnSets
            /\ rows \in TablesOver(columns)
       ELSE columns = {} /\ rows = <<>>
    /\ InitRun

NextStorage ==
    \/ storage_main_check
    \/ storage_main_read_detect
    \/ plot_storage_dirs
    \/ plot_block_scaling
    \/ plot_memory_monitor
    \/ storage_main_unknown
    \/ storage_main_show

SpecStorage == InitStorage /\ [][NextStorage]_vars

\* ------------------------------------------ plot-multinode-results.py

\* A CSV cell as csv.DictReader yields it: the text of an integer, or other
\* text ("ERROR", "SKIPPED", ...).
IntCell(n) == [t |-> "int", v |-> n, s |-> ""]
TextCell(x) == [t |-> "text", v |-> 0, s |-> x]

\* int(cell) and float(cell) succeed on the text of a number and raise
\* ValueError on any other text.
Parses(cell) == cell.t = "int"

HasGroup(res, n) == \E i \in 1..Len(res) : res[i].node = n
GroupIndex(res, n) == CHOOSE i \in 1..Len(res) : res[i].node = n
Group(res, n) == res[GroupIndex(res, n)].data

\* Lines 45-47: results[node_count].append((block_size_human, runtime)); a new
\* key goes to the end of the dict.
AppendResult(res, n, item) ==
    IF HasGroup(res, n)
    THEN [res EXCEPT ![GroupIndex(res, n)].data = Append(@, item)]
    ELSE Append(res, [node |-> n, data |-> <<item>>])

RECURSIVE ReadRows(_, _, _)
ReadRows(cols, rs, acc) ==
    IF rs = <<>> THEN [err |-> "none", results |-> acc]
    ELSE LET row == Head(rs) IN
         IF "node_count" \notin cols THEN [err |-> "KeyError", results |-> acc]
         ELSE IF ~Parses(row["node_count"]) THEN [err |-> "ValueError", results |-> acc]
         ELSE IF "block_size_human" \notin cols \/ "runtime_seconds" \notin cols
         THEN [err |-> "KeyError", results |-> acc]
         ELSE IF ~Parses(row["runtime_seconds"]) THEN ReadRows(cols, Tail(rs), acc)
         ELSE ReadRows(cols, Tail(rs),
                       AppendResult(acc, row["node_count"].v,
                                    [bs |-> row["block_size_human"],
                                     rt |-> row["runtime_seconds"].v]))

\* Lines 31-49.
read_combined_results(cols, rs) == ReadRows(cols, rs, <<>>)

\* sorted(results.items()): the groups by ascending node count.
RECURSIVE SortedGroups(_)
SortedGroups(res) ==
    IF res = <<>> THEN <<>>
    ELSE LET m == CHOOSE i \in 1..Len(res) : \A j \in 1..Len(res) : res[i].node <= res[j].node
             rest == [k \in 1..(Len(res) - 1) |-> IF k < m THEN res[k] ELSE res[k + 1]]
         IN <<res[m]>> \o SortedGroups(rest)

\* [d[0] for d in list(results.values())[0]]: the block sizes of the group
\* inserted first.
FirstGroupLabels(res) == [j \in 1..Len(res[1].data) |-> res[1].data[j].bs]

\* Lines 145-149: the zero matrix filled row by row; None when an index is
\* out of bounds.
HeatmapFits(res) == \A i \in 1..Len(res) : Len(res[i].data) <= Len(res[1].data)
HeatmapMatrix(res) ==
    LET g == SortedGroups(res) IN
    [i \in 1..Len(g) |->
        [j \in 1..Len(res[1].data) |-> IF j <= Len(g[i].data) THEN g[i].data[j].rt ELSE 0]]

\* Line 182: baseline = {d[0]: d[1] for d in results[2]}; a later entry of the
\* same key replaces an earlier one.
BaselineHas(base, k) == \E j \in 1..Len(base) : base[j].bs = k
BaselineOf(base, k) ==
    LET last == CHOOSE j \in 1..Len(base) :
                    /\ base[j].bs = k
                    /\ \A l \in 1..Len(base) : base[l].bs = k => l <= j
    IN base[last].rt

\* Line 194: speedups of one group (all its keys are in the baseline).
Speedups(base, data) ==
    [j \in 1..Len(data) |-> [num |-> BaselineOf(base, data[j].bs), den |-> data[j].rt]]

NoMultiPanels == [xticks |-> <<>>, combined |-> <<>>, heatmap |-> <<>>, speedup |-> <<>>]

IndividualFile(n) ==
    IF n = 2 THEN "results_2nodes.png"
    ELSE IF n = 4 THEN "results_4nodes.png"
    ELSE "results_8nodes.png"

\* Lines 234-242: SystemExit(message) prints the message and exits with status 1.
multinode_main_check ==
    /\ script = "multinode" /\ pc = "start"
    /\ IF path_state = "missing_dir" THEN SysExit1("results_directory_not_found")
       ELSE IF path_state = "missing" THEN SysExit1("combined_csv_not_found")
       ELSE /\ pc' = "read"
            /\ stdout' = Append(stdout, "reading_results")
            /\ UNCHANGED exit_code
    /\ UNCHANGED <<script, path_state, columns, rows, df, exp_type, results,
                   panels, plotted, artifacts, exc>>

\* Lines 247-252.
multinode_main_read ==
    /\ script = "multinode" /\ pc = "read"
    /\ LET r == read_combined_results(columns, rows) IN
       /\ IF r.err # "none"
          THEN Raise(r.err) /\ UNCHANGED <<results, stdout>>
          ELSE IF r.results = <<>>
          THEN SysExit1("no_valid_results") /\ UNCHANGED <<results, exc>>
          ELSE /\ results' = r.results
               /\ stdout' = Append(stdout, "found_results")
               /\ pc' = "combined"
               /\ UNCHANGED <<exc, exit_code>>
    /\ UNCHANGED <<script, path_state, columns, rows, df, exp_type, panels, plotted,
                   artifacts>>

\* Lines 69-103.
plot_combined ==
    /\ script = "multinode" /\ pc = "combined"
    /\ plotted' = Append(plotted, "plot_combined")
    /\ panels' = [panels EXCEPT !.combined = SortedGroups(results),
                                !.xticks = FirstGroupLabels(results)]
    /\ artifacts' = Append(artifacts, "combined_results.png")
    /\ stdout' = Append(stdout, "saved_combined")
    /\ pc' = "individual"
    /\ UNCHANGED <<script, path_state, columns, rows, df, exp_type, results, exc, exit_code>>

\* Lines 106-136: one bar chart per node count.
plot_individual ==
    /\ script = "multinode" /\ pc = "individual"
    /\ plotted' = Append(plotted, "plot_individual")
    /\ LET g == SortedGroups(results) IN
       /\ artifacts' = artifacts \o [i \in 1..Len(g) |-> IndividualFile(g[i].node)]
       /\ stdout' = stdout \o [i \in 1..Len(g) |-> "saved_node_chart"]
    /\ pc' = "heatmap"
    /\ UNCHANGED <<script, path_state, columns, rows, df, exp_type, results, panels,
                   exc, exit_code>>

\* Lines 139-173.
plot_heatmap ==
    /\ script = "multinode" /\ pc = "heatmap"
    /\ plotted' = Append(plotted, "plot_heatmap")
    /\ IF ~HeatmapFits(results)
       THEN Raise("IndexError") /\ UNCHANGED <<panels, artifacts, stdout>>
       ELSE /\ panels' = [panels EXCEPT !.heatmap = HeatmapMatrix(results)]
            /\ artifacts' = Append(artifacts, "heatmap.png")
            /\ stdout' = Append(stdout, "saved_heatmap")
            /\ pc' = "speedup"
            /\ UNCHANGED <<exc, exit_code>>
    /\ UNCHANGED <<script, path_state, columns, rows, df, exp_type, results>>

\* Lines 176-220.
plot_speedup ==
    /\ script = "multinode" /\ pc = "speedup"
    /\ plotted' = Append(plotted, "plot_speedup")
    /\ IF ~HasGroup(results, 2)
       THEN /\ stdout' = Append(stdout, "no_baseline_skipping_speedup")
            /\ pc' = "done"
            /\ UNCHANGED <<panels, artifacts, exc, exit_code>>
       ELSE LET base == Group(results, 2)
                g == SelectSeq(SortedGroups(results), LAMBDA x : x.node # 2)
            IN IF \E i \in 1..Len(g) : \E j \in 1..Len(g[i].data) :
                      ~BaselineHas(base, g[i].data[j].bs)
               THEN Raise("KeyError") /\ UNCHANGED <<panels, artifacts, stdout>>
               ELSE /\ panels' = [panels EXCEPT !.speedup =
                                     [i \in 1..Len(g) |->
                                         [node |-> g[i].node,
                                          values |-> Speedups(base, g[i].data)]]]
                    /\ artifacts' = Append(artifacts, "speedup.png")
                    /\ stdout' = Append(stdout, "saved_speedup")
                    /\ pc' = "done"
                    /\ UNCHANGED <<exc, exit_code>>
    /\ UNCHANGED <<script, path_state, columns, rows, df, exp_type, results>>

\* Lines 261-264: the closing banner; main returns.
multinode_main_done ==
    /\ script = "multinode" /\ pc = "done"
    /\ stdout' = Append(stdout, "all_plots_generated")
    /\ exit_code' = 0
    /\ pc' = "exit"
    /\ UNCHANGED <<script, path_state, columns, rows, df, exp_type, results,
                   panels, plotted, artifacts, exc>>

\* ---- input tables of plot-multinode-results.py

\* Largest number of data rows of all_results.csv.
MaxCsvRows == 3

MultiNodeHeader == {"node_count", "block_size_human", "runtime_seconds"}
MultiNodeColumnSets == {MultiNodeHeader, MultiNodeHeader \ {"runtime_seconds"}}

NodeCountCells == {IntCell(2), IntCell(4), IntCell(8), TextCell("ERROR")}
RuntimeCells == {IntCell(60), IntCell(100), TextCell("ERROR")}
BlockSizeNames == {"A", "B"}

CsvRowsOver(cols) ==
    IF "runtime_seconds" \in cols
    THEN [node_count : NodeCountCells, block_size_human : BlockSizeNames,
          runtime_seconds : RuntimeCells]
    ELSE [node_count : NodeCountCells, block_size_human : BlockSizeNames]

CsvTablesOver(cols) ==
    UNION {[1..n -> CsvRowsOver(cols)] :
              n \in 0..(IF "runtime_seconds" \in cols THEN MaxCsvRows ELSE 1)}

InitMulti ==
    /\ script = "multinode"
    /\ path_state \in {"missing_dir", "missing", "ok"}
    /\ IF path_state = "ok"
       THEN /\ columns \in MultiNodeColumnSets
            /\ rows \in CsvTablesOver(columns)
       ELSE columns = {} /\ rows = <<>>
    /\ pc = "start"
    /\ df = <<>>
    /\ exp_type = ""
    /\ results = <<>>
    /\ panels = NoMultiPanels
    /\ plotted = <<>>
    /\ artifacts = <<>>
    /\ stdout = <<>>
    /\ exc = "none"
    /\ exit_code = -1

NextMulti ==
    \/ multinode_main_check
    \/ multinode_main_read
    \/ plot_combined
    \/ plot_individual
    \/ plot_heatmap
    \/ plot_speedup
    \/ multinode_main_done

SpecMulti == InitMulti /\ [][NextMulti]_vars

\* ------------------------------------------ plot-blocksize-results.py

\* math.log2 of a positive integer, truncated by int(): halve until below 2.
RECURSIVE Log2Int(_)
Log2Int(x) == IF x < 2 THEN 0 ELSE 1 + Log2Int(x \div 2)

exp_bit_length(x) == IF x > 0 THEN Log2Int(x) + 1 ELSE 0

\* Lines 95 and 99: lambda x: int(math.log2(x)) if x > 0 else 0
exp_lambda(x) == IF x > 0 THEN Log2Int(x) ELSE 0

\* A column read by pandas holds strings as soon as one of its cells is not a
\* number.
IsTextColumn(d, name) == \E i \in 1..Len(d) : d[i][name].t = "text"

WithExp(row, e) ==
    [c \in DOMAIN row \cup {"block_size_exp"} |->
        IF c = "block_size_exp" THEN IntCell(e) ELSE row[c]]

\* Lines 92-99: which column the exponent is derived from ("" for none).
ExpSource(cols) ==
    IF "block_size_exp" \notin cols /\ "block_size_kb" \notin cols
       /\ "block_size_bytes" \in cols
    THEN "block_size_bytes"
    ELSE IF "block_size_kb" \in cols THEN "block_size_kb"
    ELSE ""

\* The table with the derived block_size_exp column.
DeriveExp(cols, d) ==
    LET src == ExpSource(cols) IN
    IF src = "" THEN d
    ELSE [i \in 1..Len(d) |->
            WithExp(d[i], exp_lambda(IF src = "block_size_kb"
                                     THEN d[i][src].v * 1024 ELSE d[i][src].v))]

\* Lines 102-104: drop ERROR/SKIPPED rows, coerce runtime_seconds, drop NaN.
FilterRuntime(d) ==
    LET noSentinel == SelectSeq(d, LAMBDA r :
                          ~(r["runtime_seconds"].t = "text"
                            /\ r["runtime_seconds"].s \in {"ERROR", "SKIPPED"}))
    IN SelectSeq(noSentinel, LAMBDA r : Parses(r["runtime_seconds"]))

\* The last row holding the minimum.
idxmin_last(d, name) ==
    CHOOSE i \in 1..Len(d) :
        /\ \A j \in 1..Len(d) : d[i][name].v <= d[j][name].v
        /\ \A j \in (i + 1)..Len(d) : d[j][name].v > d[i][name].v

\* Series.idxmin(): the first row holding the minimum.
idxmin(d, name) ==
    CHOOSE i \in 1..Len(d) :
        /\ \A j \in 1..Len(d) : d[i][name].v <= d[j][name].v
        /\ \A j \in 1..(i - 1) : d[j][name].v > d[i][name].v

NoBlockPanels == [optimal_idx |-> 0, drawn |-> <<>>]

\* Lines 73-80: find_csv_file returned None.
blocksize_main_find ==
    /\ script = "blocksize" /\ pc = "start"
    /\ IF path_state = "missing" THEN SysExit1("no_csv_file_found")
       ELSE pc' = "read" /\ UNCHANGED <<stdout, exit_code>>
    /\ UNCHANGED <<script, path_state, columns, rows, df, exp_type, results,
                   panels, plotted, artifacts, exc>>

\* Lines 86-99: read the CSV and add the exponent column; comparing a string
\* cell with 0 is a TypeError.
blocksize_main_load ==
    /\ script = "blocksize" /\ pc = "read"
    /\ IF ExpSource(columns) # "" /\ IsTextColumn(rows, ExpSource(columns))
       THEN Raise("TypeError") /\ df' = rows
       ELSE /\ df' = DeriveExp(columns, rows)
            /\ pc' = "filter"
            /\ UNCHANGED <<exc, exit_code>>
    /\ UNCHANGED <<script, path_state, columns, rows, exp_type, results, panels,
                   plotted, artifacts, stdout>>

\* Lines 101-109.
blocksize_main_filter ==
    /\ script = "blocksize" /\ pc = "filter"
    /\ IF "runtime_seconds" \notin columns
       THEN Raise("KeyError") /\ UNCHANGED <<df, stdout>>
       ELSE LET kept == FilterRuntime(df) IN
            IF "block_size_bytes" \notin columns
            THEN Raise("KeyError") /\ df' = kept /\ UNCHANGED stdout
            ELSE IF IsTextColumn(kept, "block_size_bytes")   \* astype(int)
            THEN Raise("ValueError") /\ df' = kept /\ UNCHANGED stdout
            ELSE IF kept = <<>>
            THEN SysExit1("no_valid_data") /\ df' = kept /\ UNCHANGED exc
            ELSE /\ df' = kept
                 /\ pc' = "summary"
                 /\ UNCHANGED <<stdout, exc, exit_code>>
    /\ UNCHANGED <<script, path_state, columns, rows, exp_type, results, panels,
                   plotted, artifacts>>

\* Lines 111-135: the console summary and the optimal block size.
blocksize_main_summary ==
    /\ script = "blocksize" /\ pc = "summary"
    /\ IF "block_size_human" \notin columns
       THEN Raise("KeyError") /\ UNCHANGED <<panels, stdout>>
       ELSE /\ panels' = [panels EXCEPT !.optimal_idx = idxmin(df, "runtime_seconds")]
            /\ stdout' = Append(stdout, "summary")
            /\ pc' = "plot"
            /\ UNCHANGED <<exc, exit_code>>
    /\ UNCHANGED <<script, path_state, columns, rows, df, exp_type, results,
                   plotted, artifacts>>

\* Lines 137-204: the dual-axis chart, saved as PNG and PDF.
blocksize_main_plot ==
    /\ script = "blocksize" /\ pc = "plot"
    /\ plotted' = Append(plotted, "plot")
    /\ panels' = [panels EXCEPT !.drawn =
                     IF "num_splits" \in columns THEN <<"runtime", "num_splits", "optimal">>
                     ELSE <<"runtime", "optimal">>]
    /\ artifacts' = artifacts \o <<"wordcount-blocksize.png", "wordcount-blocksize.pdf">>
    /\ stdout' = stdout \o <<"plot_saved", "pdf_saved">>
    /\ exit_code' = 0
    /\ pc' = "exit"
    /\ UNCHANGED <<script, path_state, columns, rows, df, exp_type, results, exc>>

\* ---- input tables of plot-blocksize-results.py

\* Largest small byte count of a block_size_bytes cell (1024 is added).
MaxByteCount == 4

BlockSizeHeader == {"block_size_bytes", "block_size_human", "runtime_seconds"}
BlockSizeColumnSets ==
    {BlockSizeHeader \cup x : x \in SUBSET {"block_size_exp", "block_size_kb", "num_splits"}}
    \cup {BlockSizeHeader \ {c} : c \in BlockSizeHeader}

ByteCells == {IntCell(b) : b \in ((-1)..MaxByteCount) \cup {1024}} \cup {TextCell("abc")}
KbCells == {IntCell(0), IntCell(2), TextCell("abc")}
SecondsCells == {IntCell(10), IntCell(20), TextCell("ERROR"), TextCell("SKIPPED"),
                 TextCell("abc")}

\* Three families of rows: every byte count with a good runtime, every
\* runtime cell with the byte counts 1024 and "abc", and (for longer tables)
\* equal or failed runtimes with one byte count.
CellsOf(col, family) ==
    CASE col = "block_size_bytes" ->
            IF family = "sizes" THEN ByteCells
            ELSE IF family = "runtimes" THEN {IntCell(1024), TextCell("abc")}
            ELSE {IntCell(1024)}
      [] col = "block_size_kb" ->
            IF family = "sizes" THEN KbCells ELSE {IntCell(2)}
      [] col = "runtime_seconds" ->
            IF family = "sizes" THEN {IntCell(10)}
            ELSE IF family = "runtimes" THEN SecondsCells
            ELSE {IntCell(10), IntCell(20), TextCell("ERROR")}

BlockRowsOver(cols, family) ==
    LET vc == cols \cap {"block_size_bytes", "block_size_kb", "runtime_seconds"}
    IN {r \in [vc -> ByteCells \cup KbCells \cup SecondsCells] :
           \A c \in vc : r[c] \in CellsOf(c, family)}

BlockTablesOver(cols) ==
    UNION ({[1..n -> BlockRowsOver(cols, f)] : n \in 0..MaxRows, f \in {"sizes", "runtimes"}}
           \cup {[1..n -> BlockRowsOver(cols, "ties")] : n \in 0..MaxTieRows})

InitBlock ==
    /\ script = "blocksize"
    /\ path_state \in {"missing", "ok"}
    /\ IF path_state = "ok"
       THEN /\ columns \in BlockSizeColumnSets
            /\ rows \in BlockTablesOver(columns)
       ELSE columns = {} /\ rows = <<>>
    /\ pc = "start"
    /\ df = <<>>
    /\ exp_type = ""
    /\ results = <<>>
    /\ panels = NoBlockPanels
    /\ plotted = <<>>
    /\ artifacts = <<>>
    /\ stdout = <<>>
    /\ exc = "none"
    /\ exit_code = -1

NextBlock ==
    \/ blocksize_main_find
    \/ blocksize_main_load
    \/ blocksize_main_filter
    \/ blocksize_main_summary
    \/ blocksize_main_plot

SpecBlock == InitBlock /\ [][NextBlock]_vars

\* ------------------------------------------------ properties: schema detector

\* The ExperimentKind tag of the specification for each string returned by
\* detect_experiment_type.
KindOf(t) ==
    CASE t = "storage_dirs" -> "StorageDirScaling"
      [] t = "block_scaling" -> "BlockCountScaling"
      [] t = "memory_monitor" -> "MemoryOverTime"
      [] t = "unknown" -> "Unknown"

\* The priority table of the specification, section 4.1, first match wins.
PriorityTableKind(cols) ==
    IF "num_dirs" \in cols THEN "StorageDirScaling"
    ELSE IF "target_blocks" \in cols \/ "block_size_exp" \in cols THEN "BlockCountScaling"
    ELSE IF "heap_used_mb" \in cols /\ "timestamp" \in cols THEN "MemoryOverTime"
    ELSE IF "block_size_bytes" \in cols \/ "block_size_human" \in cols THEN "BlockSizeBenchmark"
    ELSE IF "node_count" \in cols /\ "block_size_human" \in cols THEN "MultiNodeBenchmark"
    ELSE "Unknown"

Detected == script = "storage" /\ exp_type # ""

\* C1: every table whose columns contain num_dirs is classified
\* StorageDirScaling ('storage_dirs'), whatever other columns it has, and the
\* only plotting function main then calls is plot_storage_dirs.
C1_NumDirsWins ==
    (Detected /\ "num_dirs" \in columns) =>
        /\ KindOf(exp_type) = "StorageDirScaling"
        /\ plotted \in {<<>>, <<"plot_storage_dirs">>}

C1_Witness ==
    /\ Detected /\ pc = "exit"
    /\ {"num_dirs", "target_blocks", "block_size_exp", "heap_used_mb", "timestamp",
        "block_size_bytes", "block_size_human", "node_count"} \subseteq columns
    /\ exp_type = "storage_dirs"
    /\ plotted = <<"plot_storage_dirs">>

\* C2 as stated: the detector returns the kind of the first matching row of
\* the five-row priority table, so block_size_bytes/block_size_human without
\* num_dirs (and without the markers of rows 2 and 3) is BlockSizeBenchmark.
C2_Original == Detected => KindOf(exp_type) = PriorityTableKind(columns)

\* C2 amended: the detector returns exactly one kind, that of the first
\* matching row of the three-row table num_dirs / (target_blocks or
\* block_size_exp) / (heap_used_mb and timestamp); every other column set,
\* those with block_size_bytes or block_size_human included, is Unknown.
C2_ThreeRowTable ==
    Detected =>
        LET r1 == "num_dirs" \in columns
            r2 == "target_blocks" \in columns \/ "block_size_exp" \in columns
            r3 == "heap_used_mb" \in columns /\ "timestamp" \in columns
        IN /\ exp_type \in {"storage_dirs", "block_scaling", "memory_monitor", "unknown"}
           /\ (exp_type = "storage_dirs") <=> r1
           /\ (exp_type = "block_scaling") <=> (~r1 /\ r2)
           /\ (exp_type = "memory_monitor") <=> (~r1 /\ ~r2 /\ r3)
           /\ (exp_type = "unknown") <=> (~r1 /\ ~r2 /\ ~r3)

C2_Witness ==
    /\ Detected
    /\ columns = {"block_size_bytes", "block_size_human"}
    /\ exp_type = "unknown"

MultiNodeColumns ==
    /\ {"node_count", "block_size_human"} \subseteq columns
    /\ columns \cap {"num_dirs", "target_blocks", "block_size_exp"} = {}
    /\ ~({"heap_used_mb", "timestamp"} \subseteq columns)

\* C3 as stated: a table with node_count and block_size_human and none of the
\* markers of priorities 1 to 3 is classified MultiNodeBenchmark.
C3_Original ==
    (Detected /\ MultiNodeColumns) => KindOf(exp_type) = "MultiNodeBenchmark"

\* C3 amended: the detector never returns MultiNodeBenchmark; a table with
\* node_count and block_size_human and none of the markers of priorities 1 to
\* 3 is classified Unknown, and main then exits with status 1 without calling
\* a plotting function.
C3_MultiNodeIsUnknown ==
    /\ exp_type \in {"", "storage_dirs", "block_scaling", "memory_monitor", "unknown"}
    /\ (Detected /\ MultiNodeColumns) =>
          /\ exp_type = "unknown"
          /\ pc = "exit" => (exit_code = 1 /\ plotted = <<>> /\ artifacts = <<>>)

C3_Witness ==
    /\ Detected /\ pc = "exit"
    /\ columns = {"node_count", "block_size_human", "block_size_bytes"}
    /\ exp_type = "unknown"
    /\ exit_code = 1

\* ------------------------------------------------ properties: per-unit delta

BlockScalingDone ==
    /\ script = "storage"
    /\ plotted = <<"plot_block_scaling">>
    /\ exc = "none"

\* The divisor of row i: the change of actual_blocks, 1 when it is 0.
DeltaDivisor(i) ==
    LET db == rows[i]["actual_blocks"] - rows[i - 1]["actual_blocks"]
    IN IF db = 0 THEN 1 ELSE db

\* C6 as stated (the dependent value taken in bytes): whenever the table has
\* the dependent column, the metric has one entry per input row, each pair's
\* entry being (delta dependent)/(delta independent or 1); so the table
\* [(0,100),(10,200)] has an entry for its pair.
C6_Original ==
    (BlockScalingDone /\ "heap_delta_mb" \in columns) =>
        /\ panels.has_bytes_per_block
        /\ Len(panels.bytes_per_block) = Len(rows)
        /\ \A i \in 2..Len(rows) :
              panels.bytes_per_block[i] =
                 [num |-> (rows[i]["heap_delta_mb"] - rows[i - 1]["heap_delta_mb"]) * MB,
                  den |-> DeltaDivisor(i)]

\* C6 amended: the metric is derived exactly when the heap_delta_mb column is
\* present and the first row's actual_blocks is > 0 (otherwise it is omitted);
\* it then has one entry per input row, the first row's being its raw values
\* and each later one (delta heap_delta_mb * 2^20)/(delta actual_blocks), with
\* divisor 1 when the delta of actual_blocks is 0; no divisor is ever 0 and no
\* run ends in a ZeroDivisionError.
C6_PerUnitDelta ==
    /\ exc # "ZeroDivisionError"
    /\ BlockScalingDone =>
        /\ panels.has_bytes_per_block <=>
              ("heap_delta_mb" \in columns /\ rows[1]["actual_blocks"] > 0)
        /\ panels.has_bytes_per_block =>
              /\ Len(panels.bytes_per_block) = Len(rows)
              /\ panels.bytes_per_block[1] =
                    [num |-> rows[1]["heap_delta_mb"] * MB,
                     den |-> rows[1]["actual_blocks"]]
              /\ \A i \in 2..Len(rows) :
                    /\ panels.bytes_per_block[i].num =
                          (rows[i]["heap_delta_mb"] - rows[i - 1]["heap_delta_mb"]) * MB
                    /\ panels.bytes_per_block[i].den = DeltaDivisor(i)
              /\ \A i \in 1..Len(rows) : panels.bytes_per_block[i].den # 0

C6_Witness ==
    /\ BlockScalingDone /\ pc = "exit"
    /\ "heap_delta_mb" \in columns
    /\ Len(rows) = 2
    /\ rows[1]["actual_blocks"] = 5 /\ rows[1]["heap_delta_mb"] = 50
    /\ rows[2]["actual_blocks"] = 5 /\ rows[2]["heap_delta_mb"] = 80
    /\ panels.has_bytes_per_block
    /\ panels.bytes_per_block[2] = [num |-> 30 * MB, den |-> 1]

\* ------------------------------------------------ properties: memory monitor

\* C9: a MemoryOverTime table (heap_used_mb, timestamp and heap_pct present,
\* at least one row) without a block_count column still renders the heap and
\* heap-percentage panels, omits only the block-count panel, writes
\* memory_monitor_results.png and does not abort.
C9_MissingBlockCount ==
    (/\ script = "storage" /\ pc = "exit" /\ exp_type = "memory_monitor"
     /\ "heap_pct" \in columns /\ "block_count" \notin columns /\ Len(rows) > 0) =>
        /\ exc = "none" /\ exit_code = 0
        /\ artifacts = <<"memory_monitor_results.png">>
        /\ \E i \in 1..Len(panels.drawn) : panels.drawn[i] = "heap"
        /\ \E i \in 1..Len(panels.drawn) : panels.drawn[i] = "heap_pct"
        /\ \A i \in 1..Len(panels.drawn) : panels.drawn[i] # "block_count"

\* ------------------------------------------------ properties: normalizer

InSeq(x, sq) == \E i \in 1..Len(sq) : sq[i] = x

\* The rows of all_results.csv whose numeric columns parse, for one node count.
UsableRowsOf(n) ==
    SelectSeq(rows, LAMBDA r : /\ Parses(r["node_count"]) /\ r["node_count"].v = n
                               /\ Parses(r["runtime_seconds"]))

\* C4: the normalized table is exactly the input rows, in source order, whose
\* declared numeric columns (node_count, runtime_seconds) parse as numbers; a
\* row that fails coercion in any of them is dropped, and the run is not
\* aborted by it.
C4_RowsDroppedNotAborted ==
    (script = "multinode" /\ columns = MultiNodeHeader /\ pc \notin {"start", "read"}) =>
        /\ exc # "ValueError"
        /\ results # <<>> =>
              \A i \in 1..Len(results) :
                 LET u == UsableRowsOf(results[i].node) IN
                 /\ Len(results[i].data) = Len(u)
                 /\ \A j \in 1..Len(u) :
                       results[i].data[j] = [bs |-> u[j]["block_size_human"],
                                             rt |-> u[j]["runtime_seconds"].v]

\* ------------------------------------------------ properties: exponent column

RECURSIVE Pow2(_)
Pow2(e) == IF e = 0 THEN 1 ELSE 2 * Pow2(e - 1)

\* e is floor(log2(b)) for b > 0, and 0 for b <= 0.
IsFloorLog2(e, b) ==
    IF b > 0 THEN e >= 0 /\ Pow2(e) <= b /\ b < Pow2(e + 1) ELSE e = 0

ExpDerived ==
    /\ script = "blocksize" /\ path_state = "ok"
    /\ pc \notin {"start", "read"}
    /\ "block_size_exp" \notin columns
    /\ "block_size_bytes" \in columns
    /\ ~IsTextColumn(rows, "block_size_bytes")

\* C5 as stated: whenever the exponent column is absent and the byte-count
\* column is present (with numeric cells), deriving the exponent raises no
\* exception and every row with byte count b gets floor(log2(b)), 0 for b <= 0.
C5_Original ==
    /\ ExpDerived => exc # "TypeError"
    /\ (ExpDerived /\ pc = "filter") =>
          /\ Len(df) = Len(rows)
          /\ \A i \in 1..Len(df) :
                /\ "block_size_exp" \in DOMAIN df[i]
                /\ IsFloorLog2(df[i]["block_size_exp"].v, rows[i]["block_size_bytes"].v)

\* The exponent column as the filter step received it (rows dropped by the
\* filter are gone from df, so the step before it is looked at).
ExpJustDerived == ExpDerived /\ pc = "filter" /\ "block_size_kb" \notin columns

\* C5 amended: when the exponent column and the block_size_kb column are both
\* absent and block_size_bytes is present with numeric cells, deriving the
\* exponent raises no exception and every row with byte count b gets
\* floor(log2(b)) for b > 0 and 0 for b <= 0 (with a block_size_kb column the
\* exponent is derived from block_size_kb * 1024 instead).
C5_ExponentFromBytes ==
    /\ (ExpDerived /\ "block_size_kb" \notin columns) => exc # "TypeError"
    /\ ExpJustDerived =>
          /\ Len(df) = Len(rows)
          /\ \A i \in 1..Len(df) :
                /\ "block_size_exp" \in DOMAIN df[i]
                /\ IsFloorLog2(df[i]["block_size_exp"].v, rows[i]["block_size_bytes"].v)

C5_Witness ==
    /\ ExpJustDerived
    /\ Len(rows) = 2
    /\ rows[1]["block_size_bytes"].v = 1024 /\ df[1]["block_size_exp"].v = 10
    /\ rows[2]["block_size_bytes"].v = 0 /\ df[2]["block_size_exp"].v = 0

\* ------------------------------------------------ properties: speedup

SpeedupEntered ==
    /\ script = "multinode"
    /\ Len(plotted) = 4 /\ plotted[4] = "plot_speedup"
    /\ pc = "exit"

\* C7: with a baseline group of node count 2, every row of every other group
\* whose block size has a baseline runtime gets speedup = baseline runtime /
\* row runtime, and the baseline group gets no speedup series.
C7_SpeedupPerRow ==
    (SpeedupEntered /\ HasGroup(results, 2)) =>
        /\ \A k \in 1..Len(panels.speedup) : panels.speedup[k].node # 2
        /\ \A i \in 1..Len(results) :
              results[i].node # 2 =>
                 \A j \in 1..Len(results[i].data) :
                    BaselineHas(Group(results, 2), results[i].data[j].bs) =>
                       \E k \in 1..Len(panels.speedup) :
                          /\ panels.speedup[k].node = results[i].node
                          /\ panels.speedup[k].values[j] =
                                [num |-> BaselineOf(Group(results, 2), results[i].data[j].bs),
                                 den |-> results[i].data[j].rt]

\* No block size occurs twice in one node-count group.
NoDuplicateKeys(res) ==
    \A i \in 1..Len(res) : \A j, k \in 1..Len(res[i].data) :
        res[i].data[j].bs = res[i].data[k].bs => j = k

\* C8: without a group of node count 2 the speedup derivation is skipped: no
\* speedup artifact, an 'unavailable' message, the combined, per-node and
\* heatmap artifacts are produced and the run ends successfully.
C8_NoBaselineSkipsSpeedup ==
    (/\ script = "multinode" /\ pc = "exit" /\ results # <<>> /\ ~HasGroup(results, 2)
     /\ NoDuplicateKeys(results)) =>
        /\ exit_code = 0 /\ exc = "none"
        /\ ~InSeq("speedup.png", artifacts)
        /\ InSeq("no_baseline_skipping_speedup", stdout)
        /\ InSeq("combined_results.png", artifacts)
        /\ InSeq("heatmap.png", artifacts)
        /\ \A i \in 1..Len(results) : InSeq(IndividualFile(results[i].node), artifacts)

\* ------------------------------------------------ properties: fatal inputs

Diagnostics == {"usage", "file_not_found", "unknown_experiment_type",
                "results_directory_not_found", "combined_csv_not_found",
                "no_valid_results", "no_csv_file_found", "no_valid_data"}

\* The input file or directory is missing, the schema is not recognized, or
\* no usable row is left (the table being otherwise well-formed for its kind).
FatalInput ==
    \/ path_state # "ok"
    \/ script = "storage" /\ exp_type = "unknown"
    \/ /\ script = "storage" /\ Len(rows) = 0
       /\ \/ exp_type = "storage_dirs" /\ RequiredStorageDirs \subseteq columns
          \/ exp_type = "block_scaling" /\ RequiredBlockScaling \subseteq columns
          \/ exp_type = "memory_monitor" /\ {"heap_pct", "block_count"} \subseteq columns
    \/ /\ script = "multinode" /\ columns = MultiNodeHeader
       /\ \A i \in 1..Len(rows) :
             Parses(rows[i]["node_count"]) /\ ~Parses(rows[i]["runtime_seconds"])
    \/ /\ script = "blocksize" /\ BlockSizeHeader \subseteq columns
       /\ "block_size_kb" \notin columns
       /\ ~IsTextColumn(rows, "block_size_bytes")
       /\ \A i \in 1..Len(rows) : ~Parses(rows[i]["runtime_seconds"])

\* C10: a fatal input condition ends the run with a non-zero exit status and
\* a diagnostic line, no plotting function has run and no artifact is written.
C10_FatalInputShortCircuits ==
    (pc \in {"show", "exit"} /\ FatalInput) =>
        /\ exit_code = 1
        /\ exc = "none"
        /\ stdout # <<>> /\ stdout[Len(stdout)] \in Diagnostics
        /\ plotted = <<>>
        /\ artifacts = <<>>

\* ------------------------------------- properties: artifacts of a failed run

\* C11: a run that ends in failure (non-zero exit status or uncaught
\* exception) has written no artifact file.
C11_FailedRunWritesNothing ==
    (pc = "exit" /\ exit_code # 0) => artifacts = <<>>

\* ------------------------------------- properties: unmet preconditions

\* Some row of a non-baseline group has a block size without a baseline entry.
MissingBaselineKey ==
    /\ HasGroup(results, 2)
    /\ \E i \in 1..Len(results) :
          /\ results[i].node # 2
          /\ \E j \in 1..Len(results[i].data) :
                ~BaselineHas(Group(results, 2), results[i].data[j].bs)

\* C12: when a non-baseline row has a block size with no baseline entry, the
\* speedup of that row is left out, the run still completes successfully and
\* the combined, per-node and heatmap charts are produced.
C12_UnmetPreconditionOmitted ==
    (SpeedupEntered /\ MissingBaselineKey) =>
        /\ exit_code = 0 /\ exc = "none"
        /\ InSeq("combined_results.png", artifacts)
        /\ InSeq("heatmap.png", artifacts)
        /\ \A i \in 1..Len(results) : InSeq(IndividualFile(results[i].node), artifacts)

\* ------------------------------------- properties: duplicate keys

\* The lines plot-multinode-results.py prints on a table without duplicates.
RoutineMessages == {"reading_results", "found_results", "saved_combined",
                    "saved_node_chart", "saved_heatmap", "saved_speedup",
                    "no_baseline_skipping_speedup", "all_plots_generated"}

\* The run reports something out of the ordinary: it fails, or prints a line
\* it does not print otherwise.
DuplicateSurfaced ==
    \/ exit_code # 0
    \/ \E k \in 1..Len(stdout) : stdout[k] \notin RoutineMessages

\* C13: when one node-count group holds the same block size twice, the run
\* surfaces the duplicate to the user instead of going on silently.
C13_DuplicateSurfaced ==
    (script = "multinode" /\ pc = "exit" /\ results # <<>> /\ ~NoDuplicateKeys(results))
        => DuplicateSurfaced

\* ------------------------------------- properties: chart alignment

\* The runtime group g holds for block size k, as a set (empty when absent).
RuntimesFor(g, k) == {g.data[j].rt : j \in {l \in 1..Len(g.data) : g.data[l].bs = k}}

HeatmapEntered ==
    /\ script = "multinode"
    /\ Len(plotted) >= 3 /\ plotted[3] = "plot_heatmap"

\* C17: filling the heatmap never indexes out of bounds, and for every group i
\* and position j the heatmap cell (i, j) and the combined-chart point j are
\* the runtime of group i for the block size shown as axis label j.
C17_ValuesMatchLabels ==
    (HeatmapEntered /\ NoDuplicateKeys(results)) =>
        /\ exc # "IndexError"
        /\ \A i \in 1..Len(panels.heatmap) : \A j \in 1..Len(panels.xticks) :
              panels.heatmap[i][j] \in RuntimesFor(SortedGroups(results)[i], panels.xticks[j])
        /\ \A i \in 1..Len(panels.combined) : \A j \in 1..Len(panels.combined[i].data) :
              /\ j <= Len(panels.xticks)
              /\ panels.combined[i].data[j].bs = panels.xticks[j]

\* ------------------------------------- properties: capacity projection

\* plot_block_scaling ran on a table with its required columns and more than
\* one row.
ProjectionsReached ==
    /\ script = "storage" /\ plotted = <<"plot_block_scaling">>
    /\ RequiredBlockScaling \subseteq columns
    /\ Len(rows) > 1

\* m = floor(budget / average_unit_cost) for a budget of g GiB, the cost being
\* (dh MB) / span, or the default constant when span = 0. Stated by
\* m * cost <= budget < (m + 1) * cost, in MB for a measured cost and around
\* g * (GiB \div 150) for the default.
IsProjection(m, g, dh, span) ==
    IF span = 0
    THEN LET q == GiB \div DefaultBytesPerBlock
             r == GiB % DefaultBytesPerBlock
         IN /\ (m - g * q) * DefaultBytesPerBlock <= g * r
            /\ (m + 1 - g * q) * DefaultBytesPerBlock > g * r
    ELSE LET n == g * (GiB \div MB) * span
         IN CASE dh > 0 -> m * dh <= n /\ n < (m + 1) * dh
              [] dh < 0 -> m * dh >= n /\ n > (m + 1) * dh
              [] OTHER -> FALSE

\* C15: for a block-scaling table with more than one row the projection of
\* every budget is floor(budget / average_unit_cost), computed without a
\* division by zero and never negative.
C15_CapacityProjection ==
    ProjectionsReached =>
        /\ exc = "none"
        /\ panels.has_projections
        /\ \A k \in 1..Len(HeapBudgets) :
              /\ panels.projections[k] >= 0
              /\ IsProjection(panels.projections[k], HeapBudgets[k],
                              rows[Len(rows)]["heap_mb"] - rows[1]["heap_mb"],
                              rows[Len(rows)]["actual_blocks"] - rows[1]["actual_blocks"])

\* ------------------------------------- properties: linear trend

\* plot_block_scaling ran on a table with its required columns.
TrendReached ==
    /\ script = "storage" /\ plotted = <<"plot_block_scaling">>
    /\ RequiredBlockScaling \subseteq columns

\* The line slope * x + intercept (fractions over one denominator den) is a
\* least-squares line of the points (x, y) of d: the residuals
\* y - (slope * x + intercept), scaled by den, sum to zero and are orthogonal
\* to x (the normal equations).
IsLeastSquares(t, d, x, y) ==
    LET res(i) == t.slope.den * d[i][y] - t.slope.num * d[i][x] - t.intercept.num
    IN /\ t.intercept.den = t.slope.den
       /\ Sum([i \in 1..Len(d) |-> res(i)]) = 0
       /\ Sum([i \in 1..Len(d) |-> d[i][x] * res(i)]) = 0

\* C16: the heap-vs-blocks panel is drawn for every table; the trend line is
\* produced exactly when the table has at least 3 rows, and when the block
\* counts are not all equal it is the least-squares line of heap_mb on
\* actual_blocks.
C16_LinearTrend ==
    TrendReached =>
        /\ InSeq("heap_vs_blocks", panels.drawn)
        /\ (panels.has_trend <=> Len(rows) >= 3)
        /\ (panels.has_trend /\ panels.trend.slope.den # 0) =>
              IsLeastSquares(panels.trend, rows, "actual_blocks", "heap_mb")

\* The series (1,10), (2,20), (3,30) gets slope 10 and intercept 0.
C16_Witness ==
    /\ TrendReached
    /\ Len(rows) = 3
    /\ \A i \in 1..3 : rows[i]["actual_blocks"] = i /\ rows[i]["heap_mb"] = 10 * i
    /\ panels.has_trend
    /\ panels.trend.slope.den # 0
    /\ panels.trend.slope.num = 10 * panels.trend.slope.den
    /\ panels.trend.intercept.num = 0
    /\ artifacts # <<>>

\* ------------------------------------- properties: optimal configuration

\* Both single-table scripts, each run starting from its own input.
SpecOptimal == (InitStorage \/ InitBlock) /\ [][NextStorage \/ NextBlock]_vars

\* i is the first position of sequence s holding its least value.
IsFirstLeast(i, s) ==
    /\ i \in 1..Len(s)
    /\ \A j \in 1..Len(s) : s[i] <= s[j]
    /\ \A j \in 1..(i - 1) : s[j] # s[i]

\* The write throughputs of the scaling table, negated (the greatest
\* throughput is the least of them), and the runtimes of the rows of the raw
\* block-size table that hold a number, in table order.
NegatedThroughputs == [i \in 1..Len(rows) |-> 0 - rows[i]["write_throughput_mbps"]]
UsableRuntimes ==
    LET usable == SelectSeq(rows, LAMBDA r : Parses(r["runtime_seconds"]))
    IN [i \in 1..Len(usable) |-> usable[i]["runtime_seconds"].v]

OptimalChosenStorage ==
    script = "storage" /\ plotted = <<"plot_storage_dirs">> /\ exc = "none"
OptimalChosenBlock ==
    script = "blocksize" /\ InSeq("summary", stdout)

\* C14: the optimal row is the first row, in table order, of the greatest
\* write throughput (storage-dir scaling) and the first remaining row of the
\* least runtime (block-size benchmark, after the failed rows were dropped).
C14_OptimalRow ==
    /\ OptimalChosenStorage => IsFirstLeast(panels.optimal_idx, NegatedThroughputs)
    /\ OptimalChosenBlock =>
          /\ [i \in 1..Len(df) |-> df[i]["runtime_seconds"].v] = UsableRuntimes
          /\ IsFirstLeast(panels.optimal_idx, UsableRuntimes)

\* A failed row was dropped and the two remaining rows tie: the first of the
\* remaining rows is the optimum.
C14_Witness ==
    /\ OptimalChosenBlock /\ pc = "exit" /\ exit_code = 0
    /\ Len(rows) = 3 /\ Len(df) = 2
    /\ ~Parses(rows[1]["runtime_seconds"])
    /\ df[1]["runtime_seconds"].v = df[2]["runtime_seconds"].v
    /\ panels.optimal_idx = 1

====
